---- MODULE Spec2Model ----
(***************************************************************************)
(* Model of the target-list validation pipeline of pfs_target_uploader     *)
(* (utils/checker.py): check_keys, check_str, check_values,                *)
(* check_fluxcolumns, check_unique and their driver validate_input;        *)
(* of get_semester_daterange and visibility_checker; of the callbacks      *)
(* cb_validate, cb_PPP and cb_submit of the web application (pn_app.py)    *)
(* with the simulation panel and its archive; of update_alert; and of      *)
(* load_input (utils/io.py).                                               *)
(*                                                                         *)
(* Conventions                                                             *)
(*   - a Python str is a sequence of one-character strings;                *)
(*   - a float is an integer count of 1e-4 units, NaN is a separate cell;  *)
(*   - a DataFrame is [cols |-> sequence of column names,                  *)
(*                     rows |-> sequence of functions column -> cell];     *)
(*   - None/True/False of a stage status are "None"/"True"/"False".        *)
(***************************************************************************)
EXTENDS Integers, Sequences, FiniteSets, TLC

VARIABLES
    df,                 \* the caller's DataFrame object (validate_input works on it by reference)
    df0,                \* the DataFrame as it was when validate_input was called
    validation_status,  \* the report dict under construction / returned
    pc,                 \* position inside validate_input
    raised,             \* the exception that left validate_input, or "none"
    element,            \* argument of a direct call of check_pattern / check_equinox
    ret,                \* result of that direct call
    run,                \* 1 during the first call of validate_input, 2 during a second one
    report1,            \* the report returned by the first call
    sem,                \* get_semester_daterange and the date range of visibility_checker
    vis,                \* the loops of visibility_checker
    app,                \* the web application: widgets, panels and the running callback
    alert,              \* a call of update_alert of the simulation panel
    io                  \* a call of load_input

vars == <<df, df0, validation_status, pc, raised, element, ret,
          run, report1, sem, vis, app, alert, io>>

(***************************************************************************)
(* Bounds of the model                                                     *)
(***************************************************************************)
MaxRows == 2    \* rows of a generated dataset: 0..MaxRows
MaxLen == 3     \* length of the exhaustively generated strings: 0..MaxLen

(***************************************************************************)
(* Python values                                                           *)
(***************************************************************************)
None == "None"
PyBool(b) == IF b THEN "True" ELSE "False"

Str(s) == [t |-> "str", s |-> s, n |-> 0]
Num(n) == [t |-> "num", s |-> <<>>, n |-> n]
NaN == [t |-> "nan", s |-> <<>>, n |-> 0]
NoneCell == [t |-> "none", s |-> <<>>, n |-> 0]

\* np.isfinite on a float cell
isfinite(c) == c.t = "num"
\* pandas isna on a cell
isna(c) == c.t \in {"nan", "none"}

Range(f) == {f[x] : x \in DOMAIN f}
All(mask) == \A i \in DOMAIN mask : mask[i]

(***************************************************************************)
(* check_str.check_pattern: re.match(r"^[A-Za-z0-9_+\-\.]+$", element)     *)
(***************************************************************************)
Upper == {"A","B","C","D","E","F","G","H","I","J","K","L","M",
          "N","O","P","Q","R","S","T","U","V","W","X","Y","Z"}
Lower == {"a","b","c","d","e","f","g","h","i","j","k","l","m",
          "n","o","p","q","r","s","t","u","v","w","x","y","z"}
Digit == {"0","1","2","3","4","5","6","7","8","9"}
ClassChars == Upper \cup Lower \cup Digit \cup {"_", "+", "-", "."}

\* length of the longest prefix of s made of characters of the class
\* (what the greedy [..]+ consumes)
RECURSIVE ClassPrefix(_, _)
ClassPrefix(s, k) ==
    IF k < Len(s) /\ s[k + 1] \in ClassChars THEN ClassPrefix(s, k + 1) ELSE k

\* Python's $ (no re.MULTILINE) matches at the end of the string and also
\* just before a newline that is the last character of the string.
DollarMatchesAt(s, k) ==
    \/ k = Len(s)
    \/ k = Len(s) - 1 /\ s[Len(s)] = "\n"

check_pattern(s) ==
    LET k == ClassPrefix(s, 0) IN k >= 1 /\ DollarMatchesAt(s, k)

(***************************************************************************)
(* float(str): the strings Python's float() accepts                        *)
(***************************************************************************)
Whitespace == {" ", "\n", "\t", "\r"}

RECURSIVE LStrip(_)
LStrip(s) == IF s # <<>> /\ Head(s) \in Whitespace THEN LStrip(Tail(s)) ELSE s

RECURSIVE RStrip(_)
RStrip(s) ==
    IF s # <<>> /\ s[Len(s)] \in Whitespace
    THEN RStrip(SubSeq(s, 1, Len(s) - 1)) ELSE s

ToLower(c) ==
    CASE c = "I" -> "i" [] c = "N" -> "n" [] c = "F" -> "f" [] c = "A" -> "a"
      [] c = "T" -> "t" [] c = "Y" -> "y" [] OTHER -> c

IsInfNan(s) ==
    LET l == [i \in DOMAIN s |-> ToLower(s[i])] IN
    l \in { <<"i","n","f">>, <<"n","a","n">>,
            <<"i","n","f","i","n","i","t","y">> }

\* digit (["_"] digit)*
IsDigitPart(s) ==
    /\ s # <<>>
    /\ s[1] \in Digit
    /\ s[Len(s)] \in Digit
    /\ \A i \in DOMAIN s : s[i] \in Digit \cup {"_"}
    /\ \A i \in 1..(Len(s) - 1) : ~(s[i] = "_" /\ s[i + 1] = "_")

Positions(s, cs) == {i \in DOMAIN s : s[i] \in cs}
Min(S) == CHOOSE x \in S : \A y \in S : x <= y

IsMantissa(m) ==
    LET dots == Positions(m, {"."}) IN
    IF dots = {} THEN IsDigitPart(m)
    ELSE LET p == Min(dots)
             ip == SubSeq(m, 1, p - 1)
             fp == SubSeq(m, p + 1, Len(m))
         IN \/ IsDigitPart(ip) /\ (fp = <<>> \/ IsDigitPart(fp))
            \/ ip = <<>> /\ IsDigitPart(fp)

DropSign(s) == IF s # <<>> /\ Head(s) \in {"+", "-"} THEN Tail(s) ELSE s

IsNumber(u) ==
    LET es == Positions(u, {"e", "E"}) IN
    IF es = {} THEN IsMantissa(u)
    ELSE LET p == Min(es) IN
         /\ IsMantissa(SubSeq(u, 1, p - 1))
         /\ IsDigitPart(DropSign(SubSeq(u, p + 1, Len(u))))

\* TRUE iff float(s) returns, FALSE iff it raises ValueError
ParsesAsFloat(s) ==
    LET u == DropSign(RStrip(LStrip(s))) IN IsInfNan(u) \/ IsNumber(u)

(***************************************************************************)
(* check_values.check_equinox                                              *)
(* outcome "IndexError" when e is empty (e[0]), else "True"/"False"        *)
(***************************************************************************)
\* check_equinox without the test of the epoch letter
check_equinox_any_epoch(e) ==
    IF e = <<>> THEN "IndexError"
    ELSE PyBool(ParsesAsFloat(Tail(e)))

check_equinox(e) ==
    IF e = <<>> THEN "IndexError"
    ELSE LET is_epoch == (e[1] = "J") \/ (e[1] = "B")
             is_year == ParsesAsFloat(Tail(e))
         IN PyBool(is_epoch /\ is_year)

(***************************************************************************)
(* Schema registry (utils/__init__.py): required_keys, optional_keys,      *)
(* target_datatype, filter_category                                        *)
(***************************************************************************)
required_keys ==
    <<"obj_id", "ob_code", "ra", "dec", "equinox", "priority", "exptime",
      "resolution">>

bands == <<"g", "r", "i", "z", "y", "j">>

filter_col(b) == "filter_" \o b
flux_col(b) == "flux_" \o b
flux_error_col(b) == "flux_error_" \o b
error_col(c) == c \o "_error"

optional_keys ==
    <<"pmra", "pmdec", "parallax", "tract", "patch",
      "filter_g", "filter_r", "filter_i", "filter_z", "filter_y", "filter_j",
      "flux_g", "flux_r", "flux_i", "flux_z", "flux_y", "flux_j",
      "flux_error_g", "flux_error_r", "flux_error_i", "flux_error_z",
      "flux_error_y", "flux_error_j">>

target_datatype(k) ==
    CASE k \in {"ob_code", "equinox", "resolution"} -> "str"
      [] k \in {filter_col(bands[i]) : i \in DOMAIN bands} -> "str"
      [] k \in {"obj_id", "priority", "tract", "patch"} -> "int"
      [] OTHER -> "float"

filter_category(b) ==
    CASE b = "g" -> {"g_hsc", "g_ps1"}
      [] b = "r" -> {"r2_hsc"}
      [] b = "i" -> {"i2_hsc"}
      [] b = "z" -> {"z_hsc"}
      [] b = "y" -> {"y_hsc"}
      [] OTHER -> {}

(***************************************************************************)
(* DataFrame primitives                                                    *)
(***************************************************************************)
columns(d) == Range(d.cols)
size(d) == Len(d.rows)
column(d, k) == [i \in 1..size(d) |-> d.rows[i][k]]

\* df[name] = scalar: overwrite the column in place, or append a new one
SetColumn(d, name, cell) ==
    [cols |-> IF name \in columns(d) THEN d.cols ELSE Append(d.cols, name),
     rows |-> [i \in 1..size(d) |->
                 [c \in DOMAIN d.rows[i] \cup {name} |->
                     IF c = name THEN cell ELSE d.rows[i][c]]]]

\* df.drop(columns=[name], inplace=True)
DropColumn(d, name) ==
    [cols |-> SelectSeq(d.cols, LAMBDA c : c # name),
     rows |-> [i \in 1..size(d) |->
                 [c \in DOMAIN d.rows[i] \ {name} |-> d.rows[i][c]]]]

\* df.empty: some axis has length 0
empty(d) == size(d) = 0 \/ Len(d.cols) = 0

(***************************************************************************)
(* check_keys                                                              *)
(***************************************************************************)
KeyDescs(d, keys, present, kind, text) ==
    LET sel == SelectSeq(keys, LAMBDA k : (k \in columns(d)) = present)
    IN [i \in DOMAIN sel |-> <<kind, sel[i], text>>]

\* check_keys with the optional keys counted into the required status
check_keys_optional_required(d) ==
    <<[status |-> PyBool(\A k \in Range(required_keys) \cup Range(optional_keys) :
                              k \in columns(d)),
       desc_success |-> KeyDescs(d, required_keys, TRUE, "Required key", "is found"),
       desc_error |-> KeyDescs(d, required_keys, FALSE, "Required key", "is missing")],
      [status |-> PyBool(\A i \in DOMAIN optional_keys :
                              optional_keys[i] \in columns(d)),
       desc_success |-> KeyDescs(d, optional_keys, TRUE, "Optional key", "is found"),
       desc_warning |-> KeyDescs(d, optional_keys, FALSE, "Optional key", "is missing")]>>

check_keys(d) ==
    <<[status |-> PyBool(\A i \in DOMAIN required_keys :
                              required_keys[i] \in columns(d)),
       desc_success |-> KeyDescs(d, required_keys, TRUE, "Required key", "is found"),
       desc_error |-> KeyDescs(d, required_keys, FALSE, "Required key", "is missing")],
      [status |-> PyBool(\A i \in DOMAIN optional_keys :
                              optional_keys[i] \in columns(d)),
       desc_success |-> KeyDescs(d, optional_keys, TRUE, "Optional key", "is found"),
       desc_warning |-> KeyDescs(d, optional_keys, FALSE, "Optional key", "is missing")]>>

(***************************************************************************)
(* check_str                                                               *)
(***************************************************************************)
\* np.vectorize(f)(arr) without otypes: ValueError on a size-0 input;
\* re.match raises TypeError on an element that is not a str
vectorized_check(arr) ==
    IF Len(arr) = 0 THEN [exc |-> "ValueError", val |-> <<>>]
    ELSE IF \E i \in DOMAIN arr : arr[i].t # "str"
         THEN [exc |-> "TypeError", val |-> <<>>]
         ELSE [exc |-> "none",
               val |-> [i \in DOMAIN arr |-> check_pattern(arr[i].s)]]

StrKeys(d, keys) ==
    SelectSeq(keys, LAMBDA k : k \in columns(d) /\ target_datatype(k) = "str")

\* the first exception raised by the vectorized checks over keys, in order
RECURSIVE FirstExc(_, _, _)
FirstExc(d, keys, j) ==
    IF j > Len(keys) THEN "none"
    ELSE LET r == vectorized_check(column(d, keys[j])) IN
         IF r.exc # "none" THEN r.exc ELSE FirstExc(d, keys, j + 1)

AndMasks(d, keys) ==
    [i \in 1..size(d) |->
        \A j \in DOMAIN keys : check_pattern(d.rows[i][keys[j]].s)]

check_str(d) ==
    LET rk == StrKeys(d, required_keys)
        ok == StrKeys(d, optional_keys)
        e == FirstExc(d, rk \o ok, 1)
    IN IF e # "none" THEN [exc |-> e, val |-> [status |-> None]]
       ELSE [exc |-> "none",
             val |-> [status |-> PyBool(All(AndMasks(d, rk))),
                      status_optional |-> PyBool(All(AndMasks(d, ok))),
                      success_required |-> AndMasks(d, rk),
                      success_optional |-> AndMasks(d, ok),
                      keys |-> [k \in Range(rk) \cup Range(ok) |->
                                  LET m == vectorized_check(column(d, k)).val
                                  IN [status |-> PyBool(All(m)), success |-> m]]]]

(***************************************************************************)
(* check_values (floats are counted in units of 1e-4)                      *)
(***************************************************************************)
\* a comparison with NaN is False
\* is_ra with the upper bound excluded
is_ra_exclusive(c) == c.t = "num" /\ c.n >= 0 /\ c.n < 3600000
is_ra(c) == c.t = "num" /\ c.n >= 0 /\ c.n <= 3600000
is_dec(c) == c.t = "num" /\ c.n >= -900000 /\ c.n <= 900000
is_priority(c) == c.t = "num" /\ c.n >= 0 /\ c.n <= 90000
is_exptime(c) == c.t = "num" /\ c.n > 0
is_resolution(c) == c = Str(<<"L">>) \/ c = Str(<<"M">>)

value_keys == <<"ra", "dec", "equinox", "priority", "exptime", "resolution">>

\* the per-row result of the check of column k (equinox: once it returned)
value_ok(k, c) ==
    CASE k = "ra" -> is_ra(c)
      [] k = "dec" -> is_dec(c)
      [] k = "equinox" -> check_equinox(c.s) = "True"
      [] k = "priority" -> is_priority(c)
      [] k = "exptime" -> is_exptime(c)
      [] k = "resolution" -> is_resolution(c)

\* np.vectorize(check_equinox)(df["equinox"].to_numpy())
vectorized_check_equinox(arr) ==
    IF Len(arr) = 0 THEN "ValueError"
    ELSE IF \E i \in DOMAIN arr : arr[i].t # "str" THEN "TypeError"
    ELSE IF \E i \in DOMAIN arr : check_equinox(arr[i].s) = "IndexError"
         THEN "IndexError"
         ELSE "none"

check_values(d) ==
    LET e == vectorized_check_equinox(column(d, "equinox"))
        v == [k \in Range(value_keys) |->
                [i \in 1..size(d) |-> value_ok(k, d.rows[i][k])]]
        success_all == [i \in 1..size(d) |->
                          \A j \in DOMAIN value_keys : v[value_keys[j]][i]]
    IN IF e # "none" THEN [exc |-> e, val |-> [status |-> None]]
       ELSE [exc |-> "none",
             val |-> [status |-> PyBool(\A j \in DOMAIN value_keys :
                                           All(v[value_keys[j]])),
                      success |-> success_all,
                      keys |-> [k \in Range(value_keys) |->
                                  [status |-> PyBool(All(v[k])),
                                   success |-> v[k]]]]]

(***************************************************************************)
(* check_fluxcolumns                                                       *)
(***************************************************************************)
\* the str that names column c, as a cell
NameCell(c) ==
    Str(CASE c = "g_hsc" -> <<"g","_","h","s","c">>
          [] c = "g_ps1" -> <<"g","_","p","s","1">>
          [] c = "r2_hsc" -> <<"r","2","_","h","s","c">>
          [] c = "i2_hsc" -> <<"i","2","_","h","s","c">>
          [] c = "z_hsc" -> <<"z","_","h","s","c">>
          [] c = "y_hsc" -> <<"y","_","h","s","c">>
          [] OTHER -> <<c>>)

\* the first band, in the order of filter_category.keys(), that lists k
assign_filter_category(k) ==
    LET hit == {j \in DOMAIN bands : k \in filter_category(bands[j])}
    IN IF hit = {} THEN None ELSE bands[Min(hit)]

\* lines 293-296: initialise the three columns of every band
RECURSIVE InitFlux(_, _)
InitFlux(d, j) ==
    IF j > Len(bands) THEN d
    ELSE InitFlux(
            SetColumn(SetColumn(SetColumn(d, filter_col(bands[j]), NoneCell),
                                flux_col(bands[j]), NaN),
                      flux_error_col(bands[j]), NaN),
            j + 1)

\* AssignFlux without the "already filled" test: a later alias overwrites
AssignFlux_overwrite(st, c, b) ==
    LET row == st.row IN
    IF ~isfinite(row[c]) THEN st
    ELSE LET r1 == [row EXCEPT ![filter_col(b)] = NameCell(c),
                               ![flux_col(b)] = row[c]]
             ec == error_col(c)
         IN IF ec \in DOMAIN row /\ isfinite(row[ec])
            THEN [st EXCEPT !.row = [r1 EXCEPT ![flux_error_col(b)] = row[ec]],
                            !.found = TRUE]
            ELSE [st EXCEPT !.row = r1, !.found = TRUE]

\* lines 314-336 for one row and one column c that is an alias of band b;
\* st = [row, found, exc]
AssignFlux(st, c, b) ==
    LET row == st.row IN
    IF row[c].t \in {"str", "none"} THEN [st EXCEPT !.exc = "TypeError"]
    ELSE IF ~isfinite(row[c]) THEN st
    ELSE IF row[filter_col(b)] # NoneCell THEN st        \* skipped, logged
    ELSE LET r1 == [row EXCEPT ![filter_col(b)] = NameCell(c),
                               ![flux_col(b)] = row[c]]
             ec == error_col(c)
         IN IF ec \notin DOMAIN row                        \* KeyError: pass
            THEN [st EXCEPT !.row = r1, !.found = TRUE]
            ELSE IF row[ec].t \in {"str", "none"}
            THEN [st EXCEPT !.row = r1, !.found = TRUE, !.exc = "TypeError"]
            ELSE IF isfinite(row[ec])
            THEN [st EXCEPT !.row = [r1 EXCEPT ![flux_error_col(b)] = row[ec]],
                            !.found = TRUE]
            ELSE [st EXCEPT !.row = r1, !.found = TRUE]

\* lines 310-336: the loop over df.columns for one row
RECURSIVE RowFlux(_, _, _)
RowFlux(st, cols, j) ==
    IF j > Len(cols) \/ st.exc # "none" THEN st
    ELSE LET b == assign_filter_category(cols[j]) IN
         RowFlux(IF b = None THEN st ELSE AssignFlux(st, cols[j], b), cols, j + 1)

\* CleanBand without its two elif branches: only a band with no filter name is
\* dropped
CleanBand_filter_only(d, k) ==
    IF \A i \in 1..size(d) : isna(d.rows[i][filter_col(k)])
    THEN DropColumn(DropColumn(DropColumn(d, filter_col(k)), flux_col(k)),
                    flux_error_col(k))
    ELSE d

\* lines 351-361: drop the per-band columns that are NA in every row
CleanBand(d, k) ==
    IF \A i \in 1..size(d) : isna(d.rows[i][filter_col(k)])
    THEN DropColumn(DropColumn(DropColumn(d, filter_col(k)), flux_col(k)),
                    flux_error_col(k))
    ELSE IF \A i \in 1..size(d) : isna(d.rows[i][flux_col(k)])
    THEN DropColumn(d, flux_col(k))
    ELSE IF \A i \in 1..size(d) : isna(d.rows[i][flux_error_col(k)])
    THEN DropColumn(d, flux_error_col(k))
    ELSE d

RECURSIVE Clean(_, _)
Clean(d, j) == IF j > Len(bands) THEN d ELSE Clean(CleanBand(d, bands[j]), j + 1)

\* the DataFrame and is_found after the loops of lines 293-336; the loop over
\* the rows stops at the first exception, leaving the later rows initialised
FluxLoop(d) ==
    LET d1 == InitFlux(d, 1)
        st == [i \in 1..size(d1) |->
                 RowFlux([row |-> d1.rows[i], found |-> FALSE, exc |-> "none"],
                         d1.cols, 1)]
        bad == {i \in 1..size(d1) : st[i].exc # "none"}
    IN [exc |-> IF bad = {} THEN "none" ELSE st[Min(bad)].exc,
        df |-> [cols |-> d1.cols,
                rows |-> [i \in 1..size(d1) |->
                            IF bad # {} /\ i > Min(bad) THEN d1.rows[i]
                            ELSE st[i].row]],
        is_found |-> [i \in 1..size(d1) |-> st[i].found]]

\* check_fluxcolumns whose status is np.any(is_found)
check_fluxcolumns_any(d) ==
    LET l == FluxLoop(d) IN
    IF l.exc # "none"
    THEN [exc |-> l.exc, val |-> [status |-> None], df |-> l.df]
    ELSE [exc |-> "none",
          val |-> [status |-> PyBool(\E i \in DOMAIN l.is_found : l.is_found[i]),
                   success |-> l.is_found],
          df |-> Clean(l.df, 1)]

\* lines 290-365
check_fluxcolumns(d) ==
    LET l == FluxLoop(d) IN
    IF l.exc # "none"
    THEN [exc |-> l.exc, val |-> [status |-> None], df |-> l.df]
    ELSE [exc |-> "none",
          val |-> [status |-> PyBool(All(l.is_found)), success |-> l.is_found],
          df |-> Clean(l.df, 1)]

(***************************************************************************)
(* check_unique                                                            *)
(***************************************************************************)
\* np.unique(..., return_counts=True): the count of value x
unique_count(d, x) == Cardinality({i \in 1..size(d) : d.rows[i]["ob_code"] = x})

\* check_unique that flags only the second and later occurrences of a value
check_unique_later_occurrences(d) ==
    IF empty(d)
    THEN [status |-> "False", flags |-> <<>>, noflags |-> TRUE,
          description |-> "Empty data detected (maybe failure in loading the inputs)"]
    ELSE LET unique_elements == {d.rows[i]["ob_code"] : i \in 1..size(d)} IN
         IF Cardinality(unique_elements) = size(d)
         THEN [status |-> "True",
               flags |-> [i \in 1..size(d) |-> FALSE], noflags |-> FALSE,
               description |-> "All 'ob_code' entries are unique."]
         ELSE [status |-> "False",
               flags |-> [i \in 1..size(d) |->
                            \E j \in 1..(i - 1) :
                               d.rows[j]["ob_code"] = d.rows[i]["ob_code"]],
               noflags |-> FALSE,
               description |-> "Duplicate 'ob_code' found. 'ob_code' must be unique."]

\* lines 368-399
check_unique(d) ==
    IF empty(d)
    THEN [status |-> "False", flags |-> <<>>, noflags |-> TRUE,
          description |-> "Empty data detected (maybe failure in loading the inputs)"]
    ELSE LET unique_elements == {d.rows[i]["ob_code"] : i \in 1..size(d)} IN
         IF Cardinality(unique_elements) = size(d)
         THEN [status |-> "True",
               flags |-> [i \in 1..size(d) |-> FALSE], noflags |-> FALSE,
               description |-> "All 'ob_code' entries are unique."]
         ELSE [status |-> "False",
               flags |-> [i \in 1..size(d) |->
                            unique_count(d, d.rows[i]["ob_code"]) > 1],
               noflags |-> FALSE,
               description |-> "Duplicate 'ob_code' found. 'ob_code' must be unique."]

(***************************************************************************)
(* Datasets handed to validate_input                                       *)
(***************************************************************************)
DigitChar(i) == <<"0","1","2","3","4","5","6","7","8","9">>[i + 1]
Code(i) == <<"o", "b", "_", DigitChar(i)>>

S_J2000 == <<"J","2","0","0","0",".","0">>
S_B1950 == <<"B","1","9","5","0">>
S_X2000 == <<"X","2","0","0","0">>

\* a valid row: ra=10.0, dec=20.0, priority=5, exptime=900, g_hsc=100.0
DefaultCell(i, c) ==
    CASE c = "obj_id" -> Num(i * 10000)
      [] c = "ob_code" -> Str(Code(i))
      [] c = "ra" -> Num(100000)
      [] c = "dec" -> Num(200000)
      [] c = "equinox" -> Str(S_J2000)
      [] c = "priority" -> Num(50000)
      [] c = "exptime" -> Num(9000000)
      [] c = "resolution" -> Str(<<"L">>)
      [] c = "g_hsc" -> Num(1000000)
      [] c = "g_ps1" -> Num(2000000)
      [] c = "g_ps1_error" -> Num(20000)
      [] c = "r2_hsc" -> Num(3000000)
      [] c = "filter_g" -> Str(<<"g">>)
      [] OTHER -> NaN

\* one cell of a row replaced by another value
Overrides ==
    {[c |-> "ob_code", v |-> Str(x)] :
        x \in {Code(1), <<"A", " ", "B">>, <<"A", "\n">>}}
    \cup {[c |-> "equinox", v |-> Str(x)] : x \in {S_X2000, <<"J">>, S_B1950}}
    \cup {[c |-> "resolution", v |-> Str(x)] :
            x \in {<<"M">>, <<"l">>, <<"L", "\n">>}}
    \cup {[c |-> "ra", v |-> x] :
            x \in {Num(0), Num(3600000), Num(3600001), Num(-1), NaN}}
    \cup {[c |-> "dec", v |-> Num(x)] :
            x \in {-900000, 900000, 900001, -900001}}
    \cup {[c |-> "priority", v |-> Num(x)] : x \in {0, 90000, 100000, -10000}}
    \cup {[c |-> "exptime", v |-> Num(x)] : x \in {0, 1}}
    \cup {[c |-> "g_hsc", v |-> NaN]}

NoOverride == [c |-> "", v |-> NaN]

MkRow(i, cols, ovs) ==
    [c \in Range(cols) |->
        IF \E o \in ovs : o.c = c THEN (CHOOSE o \in ovs : o.c = c).v
        ELSE DefaultCell(i, c)]

BaseCols == required_keys \o <<"g_hsc">>

\* the rows of an n-row dataset that differ from the valid row: the first and
\* the last
Varied(n) == {1, n}

\* all required columns; every varied row has at most one overridden cell
DatasetsA ==
    UNION {
      {[cols |-> BaseCols,
        rows |-> [i \in 1..n |->
                    MkRow(i, BaseCols,
                          IF i \in Varied(n) THEN {ov[i]} ELSE {})]] :
          ov \in [Varied(n) -> Overrides \cup {NoOverride}]} :
      n \in 1..MaxRows}

\* a single row with two overridden cells
DatasetsA2 ==
    UNION {
      {[cols |-> BaseCols, rows |-> <<MkRow(1, BaseCols, {o1, o2})>>] :
          o2 \in {o \in Overrides : o.c # o1.c}} :
      o1 \in Overrides}

\* required columns left out, optional columns added, 0..MaxRows valid rows
OptionalLayouts ==
    { <<>>, <<"pmra">>, <<"filter_g">>, <<"bad_filter">> }

DatasetsB ==
    {LET cols == SelectSeq(BaseCols, LAMBDA c : c \notin missing)
                    \o (IF opt = <<"bad_filter">> THEN <<"filter_g">> ELSE opt)
     IN [cols |-> cols,
         rows |-> [i \in 1..n |->
                     MkRow(i, cols,
                           IF opt = <<"bad_filter">>
                           THEN {[c |-> "filter_g", v |-> Str(<<"g", " ", "2">>)]}
                           ELSE {})]] :
        missing \in SUBSET Range(required_keys),
        opt \in OptionalLayouts,
        n \in 0..MaxRows}

\* flux columns in every order, each cell NaN or the value of its column
FluxCols == {"g_hsc", "g_ps1", "g_ps1_error"}
Arrangements(S) ==
    UNION {{a \in [1..k -> S] : \A i, j \in 1..k : a[i] = a[j] => i = j} :
              k \in 0..Cardinality(S)}

FluxDatasets(cols, fc, n) ==
    {[cols |-> cols,
      rows |-> [i \in 1..n |->
                  [c \in Range(cols) |->
                      IF i \in Varied(n) /\ c \in nan[i] THEN NaN
                      ELSE DefaultCell(i, c)]]] :
        nan \in [Varied(n) -> SUBSET fc]}

DatasetsC ==
    UNION {
      UNION {FluxDatasets(required_keys \o r \o a, Range(a) \cup Range(r), n) :
                n \in 1..MaxRows} :
      a \in Arrangements(FluxCols), r \in {<<>>, <<"r2_hsc">>}}

\* one row more than MaxRows, every ob_code one of two values: a value shared
\* by some rows next to a value that occurs once
DupRows == MaxRows + 1
DatasetsD ==
    {[cols |-> BaseCols,
      rows |-> [i \in 1..DupRows |->
                  MkRow(i, BaseCols, {[c |-> "ob_code", v |-> Str(Code(oc[i]))]})]] :
        oc \in [1..DupRows -> {1, 2}]}

\* one valid row whose only flux information is a column named flux_g:
\* obj_id=1, ob_code='A', ra=10.0, dec=20.0, equinox='J2000.0', priority=5,
\* exptime=900, resolution='L', flux_g=100.0
EndToEndDataset ==
    [cols |-> required_keys \o <<"flux_g">>,
     rows |-> <<MkRow(1, required_keys \o <<"flux_g">>,
                      {[c |-> "ob_code", v |-> Str(<<"A">>)],
                       [c |-> "flux_g", v |-> Num(1000000)]})>>]

(***************************************************************************)
(* validate_input, one step per stage                                      *)
(***************************************************************************)
NotCalled == [cols |-> <<>>, rows |-> <<>>]

\* the value of a variable that a specification does not use
Idle == [pc |-> "idle"]

\* lines 403-415
InitialStatus ==
    [status |-> FALSE,
     str |-> [status |-> None],
     values |-> [status |-> None],
     flux |-> [status |-> None],
     unique |-> [status |-> None]]

Init ==
    /\ df \in DatasetsA \cup DatasetsA2 \cup DatasetsB \cup DatasetsC
              \cup DatasetsD \cup {EndToEndDataset}
    /\ df0 = df
    /\ validation_status = InitialStatus
    /\ pc = "stage1"
    /\ raised = "none"
    /\ element = <<>>
    /\ ret = "none"
    /\ run = 1
    /\ report1 = Idle
    /\ sem = Idle
    /\ vis = Idle
    /\ app = Idle
    /\ alert = Idle
    /\ io = Idle

\* lines 417-430
stage1_check_keys ==
    /\ pc = "stage1"
    /\ LET r == check_keys(df) IN
       /\ validation_status' =
             validation_status @@ ("required_keys" :> r[1])
                               @@ ("optional_keys" :> r[2])
       /\ pc' = IF r[1].status = "True" THEN "stage2" ELSE "done"
    /\ UNCHANGED <<df, df0, raised, element, ret,
                 run, report1, sem, vis, app, alert, io>>

\* Stage 2 that goes on to Stage 3 whatever its status
stage2_check_str_no_return ==
    /\ pc = "stage2"
    /\ LET r == check_str(df) IN
       IF r.exc # "none"
       THEN /\ raised' = r.exc
            /\ pc' = "raised"
            /\ UNCHANGED validation_status
       ELSE /\ validation_status' = [validation_status EXCEPT !.str = r.val]
            /\ pc' = "stage3"
            /\ UNCHANGED raised
    /\ UNCHANGED <<df, df0, element, ret,
                 run, report1, sem, vis, app, alert, io>>

\* lines 432-438
stage2_check_str ==
    /\ pc = "stage2"
    /\ LET r == check_str(df) IN
       IF r.exc # "none"
       THEN /\ raised' = r.exc
            /\ pc' = "raised"
            /\ UNCHANGED validation_status
       ELSE /\ validation_status' = [validation_status EXCEPT !.str = r.val]
            /\ pc' = IF r.val.status = "True" THEN "stage3" ELSE "done"
            /\ UNCHANGED raised
    /\ UNCHANGED <<df, df0, element, ret,
                 run, report1, sem, vis, app, alert, io>>

\* lines 440-446
stage3_check_values ==
    /\ pc = "stage3"
    /\ LET r == check_values(df) IN
       IF r.exc # "none"
       THEN /\ raised' = r.exc
            /\ pc' = "raised"
            /\ UNCHANGED validation_status
       ELSE /\ validation_status' = [validation_status EXCEPT !.values = r.val]
            /\ pc' = IF r.val.status = "True" THEN "flux" ELSE "done"
            /\ UNCHANGED raised
    /\ UNCHANGED <<df, df0, element, ret,
                 run, report1, sem, vis, app, alert, io>>

\* lines 448-454: check_fluxcolumns works on the caller's DataFrame in place
stage3p_check_fluxcolumns ==
    /\ pc = "flux"
    /\ LET r == check_fluxcolumns(df) IN
       /\ df' = r.df
       /\ IF r.exc # "none"
          THEN /\ raised' = r.exc
               /\ pc' = "raised"
               /\ UNCHANGED validation_status
          ELSE /\ validation_status' = [validation_status EXCEPT !.flux = r.val]
               /\ pc' = IF r.val.status = "True" THEN "stage4" ELSE "done"
               /\ UNCHANGED raised
    /\ UNCHANGED <<df0, element, ret,
                 run, report1, sem, vis, app, alert, io>>

\* Stage 4 whose summary leaves the uniqueness status out
stage4_check_unique_unsummarised ==
    /\ pc = "stage4"
    /\ LET r == check_unique(df)
           vs == [validation_status EXCEPT !.unique = r]
       IN validation_status' =
             IF /\ vs.required_keys.status = "True"
                /\ vs.str.status = "True"
                /\ vs.values.status = "True"
                /\ vs.flux.status = "True"
             THEN [vs EXCEPT !.status = TRUE]
             ELSE vs
    /\ pc' = "done"
    /\ UNCHANGED <<df, df0, raised, element, ret,
                 run, report1, sem, vis, app, alert, io>>

\* lines 456-474
stage4_check_unique ==
    /\ pc = "stage4"
    /\ LET r == check_unique(df)
           vs == [validation_status EXCEPT !.unique = r]
       IN validation_status' =
             IF /\ vs.required_keys.status = "True"
                /\ vs.str.status = "True"
                /\ vs.values.status = "True"
                /\ vs.flux.status = "True"
                /\ vs.unique.status = "True"
             THEN [vs EXCEPT !.status = TRUE]
             ELSE vs
    /\ pc' = "done"
    /\ UNCHANGED <<df, df0, raised, element, ret,
                 run, report1, sem, vis, app, alert, io>>

Next ==
    \/ stage1_check_keys
    \/ stage2_check_str
    \/ stage3_check_values
    \/ stage3p_check_fluxcolumns
    \/ stage4_check_unique

Spec == Init /\ [][Next]_vars

(***************************************************************************)
(* validate_input called twice on the same dataset                         *)
(***************************************************************************)
InitTwice ==
    /\ df \in DatasetsC \cup DatasetsD \cup {EndToEndDataset}
    /\ df0 = df
    /\ validation_status = InitialStatus
    /\ pc = "stage1"
    /\ raised = "none"
    /\ element = <<>>
    /\ ret = "none"
    /\ run = 1
    /\ report1 = Idle
    /\ sem = Idle
    /\ vis = Idle
    /\ app = Idle
    /\ alert = Idle
    /\ io = Idle

\* the caller keeps the first report and calls validate_input again, with the
\* DataFrame object of the first call (df) or with an equal copy of the dataset
\* that the first call was given (df0)
second_call ==
    /\ pc = "done"
    /\ run = 1
    /\ run' = 2
    /\ report1' = validation_status
    /\ validation_status' = InitialStatus
    /\ pc' = "stage1"
    /\ \E d \in {df, df0} : df' = d /\ df0' = d
    /\ UNCHANGED <<raised, element, ret, sem, vis, app, alert, io>>

NextTwice == Next \/ second_call

SpecTwice == InitTwice /\ [][NextTwice]_vars

(***************************************************************************)
(* Direct calls of the cell tests: check_pattern on a string, then         *)
(* check_equinox on a string that check_pattern accepted (Stage 2 passed)  *)
(***************************************************************************)
StrAlphabet == {"J", "X", "2", ".", "e", "-", "_", " ", "\n", "'"}

StrExamples ==
    {S_J2000, S_X2000, S_B1950,
     <<"J","2","0","0","0","\n">>, <<"J","n","a","n">>, <<"B","I","n","f">>,
     <<"J","1","_","0">>, <<"J","1","e","+","5">>, <<"j","2","0","0","0">>,
     <<"J","2","0","0","0",".","0"," ">>, <<"o","b","c","o","d","e","_","1">>}

Strings == UNION {[1..n -> StrAlphabet] : n \in 0..MaxLen} \cup StrExamples

InitStr ==
    /\ element \in Strings
    /\ ret = "none"
    /\ pc = "call"
    /\ df = NotCalled
    /\ df0 = NotCalled
    /\ validation_status = InitialStatus
    /\ raised = "none"
    /\ run = 1
    /\ report1 = Idle
    /\ sem = Idle
    /\ vis = Idle
    /\ app = Idle
    /\ alert = Idle
    /\ io = Idle

call_check_pattern ==
    /\ pc = "call"
    /\ ret' = PyBool(check_pattern(element))
    /\ pc' = "pattern"
    /\ UNCHANGED <<df, df0, validation_status, raised, element,
                 run, report1, sem, vis, app, alert, io>>

call_check_equinox ==
    /\ pc = "pattern"
    /\ ret = "True"
    /\ LET r == check_equinox(element) IN
       IF r \in {"True", "False"}
       THEN ret' = r /\ pc' = "equinox" /\ UNCHANGED raised
       ELSE ret' = "none" /\ pc' = "raised" /\ raised' = r
    /\ UNCHANGED <<df, df0, validation_status, element,
                 run, report1, sem, vis, app, alert, io>>

NextStr == call_check_pattern \/ call_check_equinox

SpecStr == InitStr /\ [][NextStr]_vars

(***************************************************************************)
(* get_semester_daterange and the date range of visibility_checker         *)
(***************************************************************************)
Date(y, m, d) == [year |-> y, month |-> m, day |-> d]

\* None as the value of a date
NoDate == Date(0, 0, 0)

\* get_semester_daterange with January taken as a month of the Feb-Jul branch
get_semester_daterange_jan(dt, current, next) ==
    LET y == dt.year
        m == dt.month
    IN IF next
       THEN IF m <= 7
            THEN <<Date(y, 8, 1), Date(y + 1, 1, 31)>>
            ELSE <<Date(y + 1, 2, 1), Date(y + 1, 7, 31)>>
       ELSE IF m >= 2 /\ m <= 7
            THEN <<Date(y, 2, 1), Date(y, 7, 31)>>
            ELSE IF m >= 8 /\ m <= 12
            THEN <<Date(y, 8, 1), Date(y + 1, 1, 31)>>
            ELSE <<Date(y - 1, 8, 1), Date(y, 1, 31)>>

\* lines 28-57; the branch of next is evaluated last and wins when both flags
\* are set; with neither flag the return statement reads an unbound local
get_semester_daterange(dt, current, next) ==
    LET y == dt.year
        m == dt.month
    IN IF next
       THEN IF m >= 2 /\ m <= 7
            THEN <<Date(y, 8, 1), Date(y + 1, 1, 31)>>
            ELSE IF m >= 8 /\ m <= 12
            THEN <<Date(y + 1, 2, 1), Date(y + 1, 7, 31)>>
            ELSE <<Date(y, 2, 1), Date(y, 7, 31)>>
       ELSE IF current
       THEN IF m >= 2 /\ m <= 7
            THEN <<Date(y, 2, 1), Date(y, 7, 31)>>
            ELSE IF m >= 8 /\ m <= 12
            THEN <<Date(y, 8, 1), Date(y + 1, 1, 31)>>
            ELSE <<Date(y - 1, 8, 1), Date(y, 1, 31)>>
       ELSE <<NoDate, NoDate>>                     \* UnboundLocalError

\* the calendar of datetime
IsLeap(y) == (y % 4 = 0 /\ y % 100 # 0) \/ y % 400 = 0
DaysInMonth(y, m) ==
    IF m = 2 THEN (IF IsLeap(y) THEN 29 ELSE 28)
    ELSE IF m \in {4, 6, 9, 11} THEN 30 ELSE 31

\* the values of datetime.now(tz=tz_HST): the first, the middle and the last
\* day of every month
Years == {2024, 2025}
Today ==
    UNION {{Date(y, m, d) : d \in {1, 15, DaysInMonth(y, m)}} :
              y \in Years, m \in 1..12}

\* the values of the date_begin and date_end arguments that are not None
GivenDates == {Date(2025, 3, 1), Date(2025, 3, 4)}

InitSem ==
    /\ sem \in {[pc |-> "call", now |-> n, arg_begin |-> b, arg_end |-> e,
                 date_begin |-> b, date_end |-> e,
                 tmp_begin |-> NoDate, tmp_end |-> NoDate] :
                   n \in Today,
                   b \in {NoDate} \cup GivenDates,
                   e \in {NoDate} \cup GivenDates}
    /\ df = NotCalled
    /\ df0 = NotCalled
    /\ validation_status = InitialStatus
    /\ pc = "idle"
    /\ raised = "none"
    /\ element = <<>>
    /\ ret = "none"
    /\ run = 1
    /\ report1 = Idle
    /\ vis = Idle
    /\ app = Idle
    /\ alert = Idle
    /\ io = Idle

\* line 68
vc_next_semester ==
    /\ sem.pc = "call"
    /\ LET r == get_semester_daterange(sem.now, FALSE, TRUE) IN
       sem' = [sem EXCEPT !.pc = "defaults", !.tmp_begin = r[1], !.tmp_end = r[2]]
    /\ UNCHANGED <<df, df0, validation_status, pc, raised, element, ret,
                   run, report1, vis, app, alert, io>>

\* lines 70-73
vc_default_range ==
    /\ sem.pc = "defaults"
    /\ sem' = [sem EXCEPT
                 !.pc = "ranged",
                 !.date_begin = IF @ = NoDate THEN sem.tmp_begin ELSE @,
                 !.date_end = IF @ = NoDate THEN sem.tmp_end ELSE @]
    /\ UNCHANGED <<df, df0, validation_status, pc, raised, element, ret,
                   run, report1, vis, app, alert, io>>

NextSem == vc_next_semester \/ vc_default_range

SpecSem == InitSem /\ [][NextSem]_vars

(***************************************************************************)
(* visibility_checker: the loops over the targets and the nights           *)
(* Times are seconds after night_begin (18:30); night_end is 39600.        *)
(***************************************************************************)
MaxNights == 2      \* len(daterange): 0..MaxNights + 1

\* timedelta.seconds
seconds(td) == td % 86400

\* what observer.observable returns as (t_start, t_stop); -1 stands for None
NoTime == -1
Observable ==
    {<<NoTime, NoTime>>, <<0, NoTime>>, <<NoTime, 900>>,
     <<0, 900>>, <<900, 900>>, <<900, 0>>}

ExpTimes == {900, 1800}

InitVis ==
    /\ vis \in {[pc |-> "call", exptime |-> x, daterange |-> n,
                 i_t |-> 0, dd |-> 0, t_obs_ok |-> 0, tgt_obs_ok |-> <<>>,
                 calls |-> 0, answers |-> <<>>, returned |-> <<>>] :
                   x \in UNION {[1..k -> ExpTimes] : k \in 0..MaxRows},
                   n \in 0..(MaxNights + 1)}
    /\ df = NotCalled
    /\ df0 = NotCalled
    /\ validation_status = InitialStatus
    /\ pc = "idle"
    /\ raised = "none"
    /\ element = <<>>
    /\ ret = "none"
    /\ run = 1
    /\ report1 = Idle
    /\ sem = Idle
    /\ app = Idle
    /\ alert = Idle
    /\ io = Idle

\* lines 65-66, 82
vc_enter ==
    /\ vis.pc = "call"
    /\ vis' = IF Len(vis.exptime) = 0
              THEN [vis EXCEPT !.pc = "returned", !.returned = <<>>]
              ELSE [vis EXCEPT !.pc = "target"]
    /\ UNCHANGED <<df, df0, validation_status, pc, raised, element, ret,
                   run, report1, sem, app, alert, io>>

\* lines 84-90: the next target, or line 124 when there is none left
vc_target ==
    /\ vis.pc = "target"
    /\ vis' = IF vis.i_t < Len(vis.exptime)
              THEN [vis EXCEPT !.pc = "night", !.t_obs_ok = 0, !.dd = 0,
                               !.answers = <<>>]
              ELSE [vis EXCEPT !.pc = "returned", !.returned = vis.tgt_obs_ok]
    /\ UNCHANGED <<df, df0, validation_status, pc, raised, element, ret,
                   run, report1, sem, app, alert, io>>

\* lines 92-117: one night of the current target
vc_night ==
    /\ vis.pc = "night"
    /\ vis.dd < vis.daterange - 1
    /\ \E o \in Observable :
          LET t_start == o[1]
              t_stop == o[2]
              add == IF t_start = NoTime \/ t_stop = NoTime THEN 0
                     ELSE IF t_stop > t_start THEN seconds(t_stop - t_start)
                     ELSE 0
          IN vis' = [vis EXCEPT !.t_obs_ok = @ + add,
                                !.dd = @ + 1,
                                !.calls = @ + 1,
                                !.answers = Append(@, o)]
    /\ UNCHANGED <<df, df0, validation_status, pc, raised, element, ret,
                   run, report1, sem, app, alert, io>>

\* the end of a target with > in the place of >=
vc_append_strict ==
    /\ vis.pc = "night"
    /\ vis.dd >= vis.daterange - 1
    /\ vis' = [vis EXCEPT
                 !.tgt_obs_ok = Append(@, vis.t_obs_ok > vis.exptime[vis.i_t + 1]),
                 !.i_t = @ + 1,
                 !.pc = "target"]
    /\ UNCHANGED <<df, df0, validation_status, pc, raised, element, ret,
                   run, report1, sem, app, alert, io>>

\* lines 119-122: the nights of the current target are over
vc_append ==
    /\ vis.pc = "night"
    /\ vis.dd >= vis.daterange - 1
    /\ vis' = [vis EXCEPT
                 !.tgt_obs_ok = Append(@, vis.t_obs_ok >= vis.exptime[vis.i_t + 1]),
                 !.i_t = @ + 1,
                 !.pc = "target"]
    /\ UNCHANGED <<df, df0, validation_status, pc, raised, element, ret,
                   run, report1, sem, app, alert, io>>

NextVis == vc_enter \/ vc_target \/ vc_night \/ vc_append

SpecVis == InitVis /\ [][NextVis]_vars

(***************************************************************************)
(* The web application (pn_app.py): the callbacks cb_validate, cb_PPP and  *)
(* cb_submit, the panel of the simulation results and the archive          *)
(*                                                                         *)
(* app.file is the uploaded file as panel_input.validate sees it:          *)
(*   load    - load_input can read it                                      *)
(*   status  - its rows pass the five stages of validate_input             *)
(*   visible - the mask that the visibility check gives for its rows       *)
(* An object that is None, or a table that does not exist, is <<>>; one    *)
(* that was made from file f is <<f>>.                                     *)
(***************************************************************************)
MaxTokens == 3      \* secret tokens generated in a session: 0..MaxTokens
MaxArchives == 2    \* archives written in a session: 0..MaxArchives

\* no file, or a file that load_input cannot read
Unloadable == [load |-> FALSE, status |-> FALSE, visible |-> <<>>]

Files ==
    {Unloadable, [load |-> TRUE, status |-> FALSE, visible |-> <<>>]}
       \cup {[load |-> TRUE, status |-> TRUE, visible |-> m] :
               m \in {<<FALSE>>, <<TRUE, FALSE>>, <<FALSE, TRUE>>, <<TRUE, TRUE>>}}

\* the resolution of row i of a file: the rows are L, M, L, ...
resolution(i) == IF i % 2 = 1 THEN "L" ELSE "M"

\* validation_status is None
NoReport ==
    [none |-> TRUE, status |-> FALSE,
     visibility |-> [status |-> None, success |-> <<>>]]

\* panel_input.validate: None for a file that cannot be loaded; otherwise the
\* report of validate_input, with a visibility sub-result that is computed
\* only when the five stages have passed
validate(f) ==
    IF ~f.load THEN NoReport
    ELSE [none |-> FALSE,
          status |-> f.status,
          visibility |->
             IF f.status
             THEN [status |-> PyBool(\E i \in DOMAIN f.visible : f.visible[i]),
                   success |-> f.visible]
             ELSE [status |-> None, success |-> <<>>]]

\* what PPPrunStart does when run_ppp calls it: it returns, or the optimizer
\* raises gurobipy.GurobiError, or it raises an exception of another class
OptimizerOutcomes == {"returned", "GurobiError", "Exception"}

\* tb_visible that keeps every row of the table
tb_visible_all(vs) == DOMAIN vs.visibility.success

\* PppResultWidgets.py line 257: the rows that the visibility mask selects
tb_visible(vs) ==
    {i \in DOMAIN vs.visibility.success : vs.visibility.success[i]}

\* PPPrunStart: the rows are split by resolution; the optimizer is invoked for
\* L, then for M, each only when it has rows; a resolution without rows gets
\* an empty pointing list and a placeholder summary row.  The result of a run
\* in which the optimizer raises at resolution 'at' is never returned.
PPPrunStart(rows, o, at) ==
    LET part == [r \in {"L", "M"} |-> {i \in rows : resolution(i) = r}]
        busy == {r \in {"L", "M"} : part[r] # {}}
    IN IF o = "returned"
       THEN [calls |-> busy,
             result |-> [r \in {"L", "M"} |->
                           IF part[r] = {} THEN "placeholder" ELSE "pointings"]]
       ELSE [calls |-> {r \in busy : r = "L" \/ at = "M"},
             result |-> [r \in {"L", "M"} |-> "none"]]

InitApp ==
    /\ app = [file |-> Unloadable,          \* panel_input.file_input
              secret_token |-> 0,           \* panel_input.secret_token, 0 is None
              ntokens |-> 0,                \* tokens generated so far
              disabled |-> FALSE,           \* the widgets of button_set
              submit_disabled |-> TRUE,     \* panel_submit_button.submit
              timer |-> FALSE,              \* panel_timer
              tab_visible |-> FALSE,        \* tab_panels.visible
              shown |-> FALSE,              \* the validation results are rendered
              notifications |-> {},         \* pn.state.notifications
              ppp_status |-> TRUE,          \* panel_ppp.ppp_status
              ppp_shown |-> FALSE,          \* panel_ppp.show_results() has rendered
              df_input |-> <<>>,            \* panel_ppp.df_input
              p_result |-> <<>>,            \* panel_ppp.p_result_tab, p_result_ppc
              completed |-> FALSE,          \* run_ppp has returned since the last reset
              cb |-> "idle",                \* the running callback
              pc |-> "idle",                \* its position
              last |-> "none",              \* the callback that ran last
              validation_status |-> NoReport,   \* report of the most recent validation
              run_ppp |-> "not called",     \* run_ppp in this callback
              calls |-> {},                 \* optimizer calls of this callback
              result |-> [r \in {"L", "M"} |-> "none"],
              exit |-> "none",              \* how the last callback ended
              upload |-> "not called",      \* panel_ppp.upload in this callback
              archive |-> <<>>,             \* the archive written last
              upload_ids |-> <<>>]          \* the upload_id of every archive
    /\ df = NotCalled
    /\ df0 = NotCalled
    /\ validation_status = InitialStatus
    /\ pc = "idle"
    /\ raised = "none"
    /\ element = <<>>
    /\ ret = "none"
    /\ run = 1
    /\ report1 = Idle
    /\ sem = Idle
    /\ vis = Idle
    /\ alert = Idle
    /\ io = Idle

others == <<df, df0, validation_status, pc, raised, element, ret,
            run, report1, sem, vis, alert, io>>

\* the user picks another file in the file input widget; the watcher
\* generate_secret_token (widgets.py lines 111-118) makes a new token
select_file ==
    /\ app.cb = "idle"
    /\ ~app.disabled
    /\ app.ntokens < MaxTokens
    /\ \E f \in Files :
          /\ f # app.file
          /\ app' = [app EXCEPT !.file = f,
                                !.ntokens = @ + 1,
                                !.secret_token = app.ntokens + 1]
    /\ UNCHANGED others

\* a reset that leaves ppp_status as it is
panel_ppp_reset_keeps_status(a) ==
    [a EXCEPT !.ppp_shown = FALSE, !.df_input = <<>>, !.completed = FALSE]

\* PppResultWidgets.reset (lines 76-85): the tables of an earlier run stay
panel_ppp_reset(a) ==
    [a EXCEPT !.ppp_status = FALSE, !.ppp_shown = FALSE, !.df_input = <<>>,
              !.completed = FALSE]

\* what every callback does first: it starts the timer and validates the file
Enter(a, name) ==
    [a EXCEPT !.cb = name,
              !.pc = "validated",
              !.exit = "none",
              !.run_ppp = "not called",
              !.upload = "not called",
              !.calls = {},
              !.result = [r \in {"L", "M"} |-> "none"],
              !.timer = TRUE,
              !.last = name,
              !.validation_status = validate(a.file)]

\* pn_app.py lines 181-197: a click on the enabled "PPP start" button
cb_PPP_start ==
    /\ app.cb = "idle"
    /\ ~app.disabled
    /\ app' = Enter([panel_ppp_reset(app) EXCEPT
                        !.disabled = TRUE,
                        !.submit_disabled = TRUE,
                        !.shown = FALSE,
                        !.notifications = {}],
                    "cb_PPP")
    /\ UNCHANGED others

\* _toggle_buttons(button_set, disabled=False); panel_timer.timer(False); return
Leave(a) ==
    [a EXCEPT !.disabled = FALSE, !.timer = FALSE,
              !.cb = "idle", !.pc = "idle", !.exit = "returned"]

\* the gate of cb_PPP without the test of the visibility status
cb_PPP_gate_no_visibility ==
    /\ app.cb = "cb_PPP"
    /\ app.pc = "validated"
    /\ app' = IF app.validation_status.none
              THEN Leave(app)
              ELSE [app EXCEPT !.pc = "render"]
    /\ UNCHANGED others

\* lines 199-212
cb_PPP_gate ==
    /\ app.cb = "cb_PPP"
    /\ app.pc = "validated"
    /\ app' = IF app.validation_status.none
              THEN Leave(app)
              ELSE IF app.validation_status.visibility.status # "True"
              THEN Leave([app EXCEPT !.notifications =
                            @ \cup {"Cannot simulate pointing for 0 visible targets"}])
              ELSE [app EXCEPT !.pc = "render"]
    /\ UNCHANGED others

\* cb_PPP that goes on to run_ppp without rendering the validation results
cb_PPP_render_skipped ==
    /\ app.cb = "cb_PPP"
    /\ app.pc = "render"
    /\ app' = [app EXCEPT !.pc = "run_ppp"]
    /\ UNCHANGED others

\* lines 214-219: the validation results are rendered
cb_PPP_render ==
    /\ app.cb = "cb_PPP"
    /\ app.pc = "render"
    /\ app' = [app EXCEPT !.shown = TRUE, !.tab_visible = TRUE, !.pc = "run_ppp"]
    /\ UNCHANGED others

\* lines 221-238: the try block around run_ppp and its except clause, which
\* names gurobipy.GurobiError only
cb_PPP_run_ppp ==
    /\ app.cb = "cb_PPP"
    /\ app.pc = "run_ppp"
    /\ \E o \in OptimizerOutcomes, at \in {"L", "M"} :
          LET rows == tb_visible(app.validation_status)
              r == PPPrunStart(rows, o, at)
              a == [app EXCEPT !.run_ppp = o,
                               !.df_input = <<app.file>>,
                               !.calls = r.calls,
                               !.result = r.result]
          IN /\ o # "returned" => \E i \in rows : resolution(i) = at
             /\ app' =
                  CASE o = "returned" ->
                         [a EXCEPT !.ppp_status = TRUE,
                                   !.completed = TRUE,
                                   !.p_result = <<app.file>>,
                                   !.ppp_shown = TRUE,
                                   !.submit_disabled =
                                      IF app.validation_status.status THEN FALSE ELSE @,
                                   !.pc = "finish"]
                    [] o = "GurobiError" ->
                         [a EXCEPT !.notifications = @ \cup {"GurobiError"},
                                   !.pc = "finish"]
                    [] o = "Exception" ->
                         [a EXCEPT !.cb = "idle", !.pc = "idle", !.exit = "raised"]
    /\ UNCHANGED others

\* lines 240-241
cb_PPP_finish ==
    /\ app.cb = "cb_PPP"
    /\ app.pc = "finish"
    /\ app' = Leave(app)
    /\ UNCHANGED others

\* pn_app.py lines 139-159: a click on the enabled "Validate" button
cb_validate_start ==
    /\ app.cb = "idle"
    /\ ~app.disabled
    /\ app' = Enter([panel_ppp_reset(app) EXCEPT
                        !.disabled = TRUE,
                        !.tab_visible = FALSE,
                        !.shown = FALSE,
                        !.notifications = {}],
                    "cb_validate")
    /\ UNCHANGED others

\* lines 161-177: enable_button sets submit.disabled = False for either value
\* of ppp_status (buttons.py lines 91-99)
cb_validate_finish ==
    /\ app.cb = "cb_validate"
    /\ app.pc = "validated"
    /\ app' = IF app.validation_status.none
              THEN Leave(app)
              ELSE Leave([app EXCEPT
                            !.shown = TRUE,
                            !.df_input = <<app.file>>,
                            !.tab_visible = TRUE,
                            !.submit_disabled =
                               IF app.validation_status.status THEN FALSE ELSE @])
    /\ UNCHANGED others

\* lines 243-257: a click on the enabled "Submit" button
cb_submit_start ==
    /\ app.cb = "idle"
    /\ ~app.submit_disabled
    /\ Len(app.upload_ids) < MaxArchives
    /\ app' = Enter([app EXCEPT !.submit_disabled = TRUE], "cb_submit")
    /\ UNCHANGED others

\* PppResultWidgets.upload (lines 292-316) and upload_file (io.py lines
\* 121-196) with the attributes that cb_submit has set: Table.from_pandas
\* raises when df_input is None; the simulation tables are archived when
\* ppp_status is True and both exist, placeholders otherwise; upload_file
\* makes a token of its own when it is given None
upload(a, origdata, secret_token) ==
    IF a.df_input = <<>>
    THEN [exc |-> "AttributeError", archive |-> <<>>]
    ELSE [exc |-> "none",
          archive |->
            <<[target |-> a.df_input,
               psl |-> IF a.ppp_status /\ a.p_result # <<>> THEN a.p_result ELSE <<>>,
               origdata |-> origdata,
               validated |-> a.file,
               upload_id |-> IF secret_token = 0
                             THEN MaxTokens + 1 + Len(a.upload_ids)
                             ELSE secret_token,
               ppp_status |-> a.ppp_status,
               tables |-> a.p_result,
               completed |-> a.completed]>>]

\* panel_timer.timer(False); return, in cb_submit
EndSubmit(a) ==
    [a EXCEPT !.timer = FALSE, !.cb = "idle", !.pc = "idle", !.exit = "returned"]

\* lines 274-299 of cb_submit
cb_submit_upload(a) ==
    LET u == upload(a, a.file, a.secret_token)
    IN IF u.exc # "none"
       THEN [a EXCEPT !.upload = "raised",
                      !.cb = "idle", !.pc = "idle", !.exit = "raised"]
       ELSE EndSubmit([a EXCEPT !.upload = "returned",
                                !.archive = u.archive,
                                !.upload_ids = Append(@, u.archive[1].upload_id),
                                !.submit_disabled = TRUE])

\* cb_submit that uploads whenever the file could be loaded
cb_submit_finish_unchecked ==
    /\ app.cb = "cb_submit"
    /\ app.pc = "validated"
    /\ app' = IF app.validation_status.none
              THEN EndSubmit([app EXCEPT !.tab_visible = FALSE,
                                         !.shown = FALSE,
                                         !.notifications = {}])
              ELSE cb_submit_upload(app)
    /\ UNCHANGED others

\* lines 259-299
cb_submit_finish ==
    /\ app.cb = "cb_submit"
    /\ app.pc = "validated"
    /\ app' = IF app.validation_status.none
              THEN EndSubmit([app EXCEPT !.tab_visible = FALSE,
                                         !.shown = FALSE,
                                         !.notifications = {}])
              ELSE IF ~app.validation_status.status
              THEN EndSubmit([app EXCEPT !.tab_visible = TRUE,
                                         !.shown = TRUE,
                                         !.notifications = {}])
              ELSE cb_submit_upload(app)
    /\ UNCHANGED others

NextApp ==
    \/ select_file
    \/ cb_validate_start
    \/ cb_validate_finish
    \/ cb_PPP_start
    \/ cb_PPP_gate
    \/ cb_PPP_render
    \/ cb_PPP_run_ppp
    \/ cb_PPP_finish
    \/ cb_submit_start
    \/ cb_submit_finish

SpecApp == InitApp /\ [][NextApp]_vars

(***************************************************************************)
(* PppResultWidgets.show_results.update_alert                              *)
(* Times are integers: the requested time of the summary table in          *)
(* hundredths of an hour, rot in tenths of an hour.                        *)
(***************************************************************************)
ReqTimeSpread == 20   \* requested times within 0.01 h * ReqTimeSpread of 35 h

\* PppResultWidgets.max_reqtime_normal, in tenths of an hour
max_reqtime_normal == 350

\* the status codes of PPPrunStart: time-budget exhaustion is 1, and 999 and 0
\* are the two other codes
StatusCodes == {0, 1, 999}

\* df.iloc[-1]["Request time (h)"] of the summary table
ReqTimes ==
    (max_reqtime_normal * 10 - ReqTimeSpread) .. (max_reqtime_normal * 10 + ReqTimeSpread)

\* np.ceil(t * 10.0) / 10.0 for t >= 0
CeilTenths(t) == (t + 9) \div 10

\* lines 93-111; df is <<>> for None and <<t>> for a table whose last row
\* requests t
update_alert(status_, d) ==
    LET rot == IF d = <<>> THEN 0 ELSE CeilTenths(d[1])
    IN IF status_ = 999 /\ rot > max_reqtime_normal
       THEN [object |-> "ppp_warning_text_1", alert_type |-> "warning", rot |-> rot]
       ELSE IF status_ = 1 /\ rot > max_reqtime_normal
       THEN [object |-> "ppp_warning_text_3", alert_type |-> "warning", rot |-> rot]
       ELSE IF status_ = 1 /\ rot <= max_reqtime_normal
       THEN [object |-> "ppp_warning_text_2", alert_type |-> "warning", rot |-> rot]
       ELSE [object |-> "ppp_success_text", alert_type |-> "success", rot |-> rot]

InitAlert ==
    /\ alert \in {[pc |-> "bound", status_ |-> c, df |-> d,
                     ret |-> [object |-> "", alert_type |-> "", rot |-> 0]] :
                    c \in StatusCodes, d \in {<<>>} \cup {<<t>> : t \in ReqTimes}}
    /\ df = NotCalled
    /\ df0 = NotCalled
    /\ validation_status = InitialStatus
    /\ pc = "idle"
    /\ raised = "none"
    /\ element = <<>>
    /\ ret = "none"
    /\ run = 1
    /\ report1 = Idle
    /\ sem = Idle
    /\ vis = Idle
    /\ app = Idle
    /\ io = Idle

\* the alert pane evaluates update_alert on the summary table
call_update_alert ==
    /\ alert.pc = "bound"
    /\ alert' = [alert EXCEPT !.pc = "returned",
                              !.ret = update_alert(alert.status_, alert.df)]
    /\ UNCHANGED <<df, df0, validation_status, pc, raised, element, ret,
                   run, report1, sem, vis, app, io>>

NextAlert == call_update_alert

SpecAlert == InitAlert /\ [][NextAlert]_vars

(***************************************************************************)
(* load_input (utils/io.py)                                                *)
(* The text of a cell is its characters 'body' followed by 'zeros'         *)
(* characters "0", so that an integer too large for a float can be written.*)
(***************************************************************************)
ManyZeros == 400    \* the longest run of "0" at the end of a cell

\* sys.float_info.max is 1.797...e308: the largest decimal exponent of a float
float_max_10_exp == 308

\* the largest decimal exponent of a numpy.int64 (2^63 - 1 is 9.22...e18)
int64_max_10_exp == 18

Cell(body, zeros) == [body |-> body, zeros |-> zeros]

Cells ==
    {Cell(<<"1", "2">>, 0),
     Cell(<<"+", "4">>, 0),
     Cell(<<"1", ".", "5">>, 0),
     Cell(<<"a">>, 0),
     Cell(<<>>, 0),
     Cell(<<"1">>, float_max_10_exp),
     Cell(<<"1">>, ManyZeros)}

DecimalDigits == {"0", "1", "2", "3", "4", "5", "6", "7", "8", "9"}

DigitValue(c) ==
    CASE c = "0" -> 0 [] c = "1" -> 1 [] c = "2" -> 2 [] c = "3" -> 3
      [] c = "4" -> 4 [] c = "5" -> 5 [] c = "6" -> 6 [] c = "7" -> 7
      [] c = "8" -> 8 [] c = "9" -> 9

RECURSIVE DigitsValue(_)
DigitsValue(s) ==
    IF s = <<>> THEN 0
    ELSE 10 * DigitsValue(SubSeq(s, 1, Len(s) - 1)) + DigitValue(s[Len(s)])

\* int(value) of a str: an optional sign and decimal digits; the result is
\* mant * 10^exp; ValueError otherwise
py_int(c) ==
    LET signed == c.body # <<>> /\ c.body[1] \in {"+", "-"}
        digits == IF signed THEN Tail(c.body) ELSE c.body
    IN IF digits # <<>> /\ \A i \in DOMAIN digits : digits[i] \in DecimalDigits
       THEN [exc |-> "none",
             neg |-> signed /\ c.body[1] = "-",
             mant |-> DigitsValue(digits),
             ndigits |-> Len(digits),
             exp |-> c.zeros]
       ELSE [exc |-> "ValueError", neg |-> FALSE, mant |-> 0, ndigits |-> 0, exp |-> 0]

\* the decimal exponent of a positive integer mant * 10^exp of at most three
\* leading digits, and whether the integer is above sys.float_info.max
Exponent10(n) == n.exp + n.ndigits - 1

AboveFloatMax(n) ==
    /\ n.mant > 0
    /\ \/ Exponent10(n) > float_max_10_exp
       \/ /\ Exponent10(n) = float_max_10_exp
          /\ n.mant * 1000 > 1797 * (IF n.ndigits = 1 THEN 1
                                     ELSE IF n.ndigits = 2 THEN 10 ELSE 100)

\* io.py lines 52-60: int(value) and float(value) raise ValueError, which is
\* raised again as ValueError; math.isclose converts int_value to a float and
\* raises OverflowError when it is above sys.float_info.max; the float of the
\* text of an integer is the float of the integer, so isclose is True
check_integer(c) ==
    LET n == py_int(c)
    IN IF n.exc # "none" THEN [exc |-> "ValueError", value |-> n]
       ELSE IF AboveFloatMax(n) THEN [exc |-> "OverflowError", value |-> n]
       ELSE [exc |-> "none", value |-> n]

\* the four columns that have check_integer as their converter, in the order
\* of the file
IntColumns == <<"obj_id", "priority", "tract", "patch">>

\* pd.read_csv with the converters of lines 70-79: the first converter that
\* raises ends the call
RECURSIVE read_csv(_, _)
read_csv(row, i) ==
    IF i > Len(IntColumns) THEN "none"
    ELSE LET r == check_integer(row[IntColumns[i]])
         IN IF r.exc # "none" THEN r.exc ELSE read_csv(row, i + 1)

\* Table.read(format="ascii.ecsv") of a column that the header declares as
\* int64: a cell that is not an int64 literal is a ValueError
fits_int64(c) ==
    LET n == py_int(c)
    IN n.exc = "none" /\ (n.mant = 0 \/ Exponent10(n) <= int64_max_10_exp)

\* DataFrame.to_csv of an int64 cell: the decimal digits of the number
RECURSIVE DecimalText(_)
DecimalText(n) ==
    IF n < 10 THEN <<CHOOSE c \in DecimalDigits : DigitValue(c) = n>>
    ELSE Append(DecimalText(n \div 10), CHOOSE c \in DecimalDigits : DigitValue(c) = n % 10)

to_csv(c, datatype) ==
    IF datatype = "string" THEN c
    ELSE LET n == py_int(c)
         IN Cell((IF n.neg THEN <<"-">> ELSE <<>>) \o DecimalText(n.mant), n.exp)

\* the result of load_input: an exception that leaves it, or the dataset
\* (<<>> is None) with the dict of status and error
Loaded(exc, d, status, error) ==
    [exc |-> exc, df_input |-> d, status |-> status, error |-> error]

\* lines 51-118; f is the uploaded file: parses is FALSE for bytes that the
\* parser of pandas or astropy rejects with a ValueError, datatype is the type
\* that an ECSV header declares for the four columns
load_input(f) ==
    IF f.format \notin {"csv", "ecsv"}
    THEN Loaded("none", <<>>, FALSE, "No CSV or ECSV file selected")
    ELSE IF ~f.parses
    THEN Loaded("none", <<>>, FALSE, "ValueError")
    ELSE IF /\ f.format = "ecsv"
            /\ f.datatype = "int64"
            /\ \E i \in DOMAIN IntColumns : ~fits_int64(f.row[IntColumns[i]])
    THEN Loaded("none", <<>>, FALSE, "ValueError")
    ELSE LET row == IF f.format = "ecsv"
                    THEN [k \in DOMAIN f.row |-> to_csv(f.row[k], f.datatype)]
                    ELSE f.row
             e == read_csv(row, 1)
         IN CASE e = "none" -> Loaded("none", <<row>>, TRUE, "None")
              [] e = "ValueError" -> Loaded("none", <<>>, FALSE, "ValueError")
              [] OTHER -> Loaded(e, <<>>, FALSE, "None")

InputFiles ==
    {[format |-> fmt, parses |-> p, datatype |-> t,
      row |-> [obj_id |-> a, priority |-> b, tract |-> c, patch |-> d]] :
        fmt \in {"csv", "ecsv", "fits"}, p \in BOOLEAN, t \in {"string", "int64"},
        a \in Cells, b \in Cells, c \in {Cell(<<"1", "2">>, 0), Cell(<<"a">>, 0)},
        d \in {Cell(<<"1", "2">>, 0), Cell(<<"1">>, ManyZeros)}}

InitLoad ==
    /\ io \in {[pc |-> "called", file |-> f, ret |-> Loaded("none", <<>>, FALSE, "None")] :
                 f \in InputFiles}
    /\ df = NotCalled
    /\ df0 = NotCalled
    /\ validation_status = InitialStatus
    /\ pc = "idle"
    /\ raised = "none"
    /\ element = <<>>
    /\ ret = "none"
    /\ run = 1
    /\ report1 = Idle
    /\ sem = Idle
    /\ vis = Idle
    /\ app = Idle
    /\ alert = Idle

call_load_input ==
    /\ io.pc = "called"
    /\ io' = [io EXCEPT !.pc = "done", !.ret = load_input(io.file)]
    /\ UNCHANGED <<df, df0, validation_status, pc, raised, element, ret,
                   run, report1, sem, vis, app, alert>>

NextLoad == call_load_input

SpecLoad == InitLoad /\ [][NextLoad]_vars

(***************************************************************************)
(* Properties                                                              *)
(***************************************************************************)
\* validate_input has returned its report
Returned == pc = "done"

\* the statuses of the five stages of the report, in the order of the stages
StageStatus(vs) ==
    <<vs.required_keys.status, vs.str.status, vs.values.status,
      vs.flux.status, vs.unique.status>>

MissingRequired(d) == {k \in Range(required_keys) : k \notin columns(d)}

\* C1: in the returned report the stages that ran (status not None) form a
\* prefix of keys, str, values, flux, unique; only the last stage of the prefix
\* can have failed; with a required key missing the four later stages are None
\* and the overall status is False.  While the run is at a stage, every
\* earlier stage has passed and no later one has run.
C1_StagesInOrder ==
    /\ Returned =>
         LET st == StageStatus(validation_status) IN
         /\ \A i \in 1..5 : st[i] # None => \A j \in 1..(i - 1) : st[j] # None
         /\ \A i \in 1..4 : st[i] = "False" => st[i + 1] = None
         /\ MissingRequired(df0) # {} =>
               /\ \A i \in 2..5 : st[i] = None
               /\ validation_status.status = FALSE
    /\ pc \in {"stage2", "stage3", "flux", "stage4"} =>
         LET st == StageStatus(validation_status)
             at == CASE pc = "stage2" -> 2 [] pc = "stage3" -> 3
                     [] pc = "flux" -> 4 [] pc = "stage4" -> 5
         IN /\ \A i \in 1..(at - 1) : st[i] = "True"
            /\ \A i \in at..5 : st[i] = None

C1_Witness ==
    /\ Returned
    /\ MissingRequired(df0) # {}
    /\ validation_status.required_keys.status = "False"
    /\ validation_status.str.status = None

\* C2: the overall status of the returned report is True exactly when the
\* five stage statuses are all True.
C2_OverallStatus ==
    Returned =>
       (validation_status.status = TRUE
          <=> \A i \in 1..5 : StageStatus(validation_status)[i] = "True")

C2_Witness ==
    /\ Returned
    /\ validation_status.status = TRUE
    /\ validation_status.unique.status = "True"

\* C3: validate_input returns a report for every dataset and never raises.
C3_NeverRaises == raised = "none"

\* C4: when validate_input is over, the caller's dataset has the columns and
\* the cell values it had before the call.
C4_DatasetUnchanged == pc \in {"done", "raised"} => df = df0

\* the descriptions of a list that name key k
DescsOf(descs, k) == {i \in DOMAIN descs : descs[i][2] = k}

\* C5: the required status is True iff every required key is a column; every
\* required key has exactly one description (success if present, error if
\* missing) and every optional key exactly one (success if present, warning if
\* missing); a run ends before Stage 2 only when a required key is missing.
C5_CheckKeys ==
    pc # "stage1" =>
       LET rk == validation_status.required_keys
           ok == validation_status.optional_keys
       IN /\ rk.status = "True" <=> MissingRequired(df0) = {}
          /\ Len(rk.desc_success) + Len(rk.desc_error) = Len(required_keys)
          /\ \A k \in Range(required_keys) :
                /\ Cardinality(DescsOf(rk.desc_success, k))
                      = IF k \in columns(df0) THEN 1 ELSE 0
                /\ Cardinality(DescsOf(rk.desc_error, k))
                      = IF k \in columns(df0) THEN 0 ELSE 1
          /\ Len(ok.desc_success) + Len(ok.desc_warning) = Len(optional_keys)
          /\ \A k \in Range(optional_keys) :
                /\ Cardinality(DescsOf(ok.desc_success, k))
                      = IF k \in columns(df0) THEN 1 ELSE 0
                /\ Cardinality(DescsOf(ok.desc_warning, k))
                      = IF k \in columns(df0) THEN 0 ELSE 1
          /\ (Returned /\ validation_status.str.status = None)
                => MissingRequired(df0) # {}

\* every required key present, optional keys missing, and Stage 2 has run
C5_Witness ==
    /\ pc # "stage1"
    /\ MissingRequired(df0) = {}
    /\ validation_status.required_keys.status = "True"
    /\ validation_status.optional_keys.status = "False"
    /\ Len(validation_status.optional_keys.desc_warning) > 0
    /\ validation_status.str.status # None

\* a string all of whose characters are of the class [A-Za-z0-9_+-.]
Legal(x) == x # <<>> /\ \A i \in DOMAIN x : x[i] \in ClassChars

LegalRow(d, keys, i) == \A j \in DOMAIN keys : Legal(d.rows[i][keys[j]].s)

\* C6: for a dataset that passed Stage 1, the Stage 2 status is True iff every
\* cell of the required string columns is legal; a row with an illegal cell in
\* a required string column is False in success_required; an illegal cell in
\* an optional string column only makes status_optional False, marks the row
\* in success_optional and does not keep Stage 3 from running.
C6_Stage2Legal ==
    (pc \notin {"stage1", "stage2"} /\ MissingRequired(df0) = {}) =>
       LET st == validation_status.str
           rk == StrKeys(df0, required_keys)
           ok == StrKeys(df0, optional_keys)
       IN /\ st.status = "True" <=> \A i \in 1..size(df0) : LegalRow(df0, rk, i)
          /\ st.status # None =>
                /\ \A i \in 1..size(df0) :
                      st.success_required[i] = LegalRow(df0, rk, i)
                /\ \A i \in 1..size(df0) :
                      st.success_optional[i] = LegalRow(df0, ok, i)
                /\ st.status_optional = "True"
                      <=> \A i \in 1..size(df0) : LegalRow(df0, ok, i)
          /\ (Returned /\ validation_status.values.status = None)
                => \E i \in 1..size(df0) : ~LegalRow(df0, rk, i)

\* C7: check_pattern accepts a string iff it is non-empty and every character
\* of it, the last included, is of the class [A-Za-z0-9_+-.].
C7_FullMatch == pc = "pattern" => (ret = "True" <=> Legal(element))

\* what C8 says of one cell of column k
InRange(k, c) ==
    CASE k = "ra" -> c.t = "num" /\ 0 <= c.n /\ c.n <= 360 * 10000
      [] k = "dec" -> c.t = "num" /\ -90 * 10000 <= c.n /\ c.n <= 90 * 10000
      [] k = "priority" -> c.t = "num" /\ 0 <= c.n /\ c.n <= 9 * 10000
      [] k = "exptime" -> c.t = "num" /\ c.n > 0
      [] k = "resolution" -> c.s \in {<<"L">>, <<"M">>}

\* C8: per row, ra is valid iff 0 <= ra <= 360, dec iff -90 <= dec <= 90,
\* priority iff 0 <= priority <= 9, exptime iff exptime > 0, resolution iff it
\* is 'L' or 'M'; the success mask of a row is the AND of its six per-column
\* results; the Stage 3 status is True iff the mask is True for every row.
C8_CheckValues ==
    validation_status.values.status # None =>
       LET v == validation_status.values IN
       /\ \A k \in {"ra", "dec", "priority", "exptime", "resolution"} :
             \A i \in 1..size(df0) :
                v.keys[k].success[i] = InRange(k, df0.rows[i][k])
       /\ \A i \in 1..size(df0) :
             v.success[i] = \A k \in Range(value_keys) : v.keys[k].success[i]
       /\ v.status = "True" <=> \A i \in 1..size(df0) : v.success[i]

\* a row with ra = 360.0 marked valid and a row with ra = 360.0001 marked invalid
C8_Witness ==
    /\ validation_status.values.status # None
    /\ \E i \in 1..size(df0) :
          /\ df0.rows[i]["ra"] = Num(3600000)
          /\ validation_status.values.keys["ra"].success[i]
    /\ \E i \in 1..size(df0) :
          /\ df0.rows[i]["ra"] = Num(3600001)
          /\ ~validation_status.values.keys["ra"].success[i]
          /\ ~validation_status.values.success[i]

\* C9: on a string that passed Stage 2, check_equinox never raises and returns
\* valid iff the first character is 'J' or 'B' and the rest parses as a float;
\* 'J2000.0' is valid, 'X2000' and 'J' are invalid.
C9_CheckEquinox ==
    /\ raised = "none"
    /\ pc = "equinox" =>
          /\ ret = "True" <=>
                (element[1] \in {"J", "B"} /\ ParsesAsFloat(Tail(element)))
          /\ element = S_J2000 => ret = "True"
          /\ element = S_B1950 => ret = "True"
          /\ element = S_X2000 => ret = "False"
          /\ element = <<"J">> => ret = "False"
          /\ element = <<"J", ".">> => ret = "False"
          /\ element = <<"J", "2">> => ret = "True"

C9_Witness == pc = "equinox" /\ element = S_J2000 /\ ret = "True"

\* the first column of d, in column order, that is an alias of band b and is
\* finite in row i; None when there is none
Winner(d, i, b) ==
    LET f == {j \in DOMAIN d.cols :
                 /\ d.cols[j] \in filter_category(b)
                 /\ isfinite(d.rows[i][d.cols[j]])}
    IN IF f = {} THEN None ELSE d.cols[Min(f)]

\* C10: after check_fluxcolumns, for every row and band with a finite alias
\* column, the filter and flux slots of the band hold the name and the value of
\* the first such column in column order, and the flux-error slot holds the
\* value of the '<column>_error' column of that same column when it exists and
\* is finite, and is empty otherwise.
C10_FirstAliasWins ==
    validation_status.flux.status # None =>
       \A i \in 1..size(df0) : \A b \in Range(bands) :
          LET w == Winner(df0, i, b) IN
          w # None =>
             /\ filter_col(b) \in columns(df)
             /\ flux_col(b) \in columns(df)
             /\ df.rows[i][filter_col(b)] = NameCell(w)
             /\ df.rows[i][flux_col(b)] = df0.rows[i][w]
             /\ IF error_col(w) \in columns(df0)
                   /\ isfinite(df0.rows[i][error_col(w)])
                THEN /\ flux_error_col(b) \in columns(df)
                     /\ df.rows[i][flux_error_col(b)] = df0.rows[i][error_col(w)]
                ELSE flux_error_col(b) \in columns(df)
                        => df.rows[i][flux_error_col(b)] = NaN

\* two finite aliases of band g in one row, g_hsc first and g_ps1 (which has a
\* finite error column) second: g_hsc wins and the error slot stays empty
C10_Witness ==
    /\ validation_status.flux.status # None
    /\ \E i \in 1..size(df0) :
          /\ {"g_hsc", "g_ps1", "g_ps1_error"} \subseteq columns(df0)
          /\ isfinite(df0.rows[i]["g_hsc"])
          /\ isfinite(df0.rows[i]["g_ps1"])
          /\ isfinite(df0.rows[i]["g_ps1_error"])
          /\ Winner(df0, i, "g") = "g_hsc"
          /\ df.rows[i]["filter_g"] = NameCell("g_hsc")
          /\ df.rows[i]["flux_g"] = df0.rows[i]["g_hsc"]
          /\ \E k \in 1..size(df0) :
                /\ Winner(df0, k, "g") = "g_ps1"
                /\ "flux_error_g" \in columns(df)
                /\ df.rows[k]["flux_error_g"] = df0.rows[k]["g_ps1_error"]

\* row i of d has a finite value in a column that is an alias of some band
HasFiniteAlias(d, i) ==
    \E c \in columns(d) :
       /\ \E b \in Range(bands) : c \in filter_category(b)
       /\ isfinite(d.rows[i][c])

\* C11: after check_fluxcolumns the success mask of a row is True iff the row
\* has a finite value in at least one alias column of the dataset it was given,
\* and the flux status is True iff the mask is True for every row.
C11_FluxFound ==
    validation_status.flux.status # None =>
       LET f == validation_status.flux IN
       /\ Len(f.success) = size(df0)
       /\ \A i \in 1..size(df0) : f.success[i] = HasFiniteAlias(df0, i)
       /\ f.status = "True" <=> \A i \in 1..size(df0) : f.success[i]

\* one row with a flux and one row without: the mask tells them apart and the
\* stage fails
C11_Witness ==
    /\ validation_status.flux.status = "False"
    /\ \E i, j \in 1..size(df0) :
          /\ HasFiniteAlias(df0, i) /\ validation_status.flux.success[i]
          /\ ~HasFiniteAlias(df0, j) /\ ~validation_status.flux.success[j]

\* C12: after the cleanup of check_fluxcolumns each of filter_<band>,
\* flux_<band> and flux_error_<band> is a column of the dataset iff it has a
\* non-empty cell: filter and flux iff some row has a finite alias of the band,
\* flux_error iff some row's winning alias has a finite error column.
C12_Cleanup ==
    validation_status.flux.status # None =>
       \A b \in Range(bands) :
          LET won == {i \in 1..size(df0) : Winner(df0, i, b) # None}
              err == {i \in won :
                        /\ error_col(Winner(df0, i, b)) \in columns(df0)
                        /\ isfinite(df0.rows[i][error_col(Winner(df0, i, b))])}
          IN /\ filter_col(b) \in columns(df) <=> won # {}
             /\ flux_col(b) \in columns(df) <=> won # {}
             /\ flux_error_col(b) \in columns(df) <=> err # {}
             /\ \A c \in {filter_col(b), flux_col(b), flux_error_col(b)} :
                   c \in columns(df) => \E i \in 1..size(df) : ~isna(df.rows[i][c])

\* band g populated without any error (flux_error_g dropped, the other two
\* kept) and band r not populated at all (its three columns dropped)
C12_Witness ==
    /\ validation_status.flux.status # None
    /\ "g_hsc" \in columns(df0)
    /\ \E i \in 1..size(df0) : Winner(df0, i, "g") # None
    /\ {"filter_g", "flux_g"} \subseteq columns(df)
    /\ "flux_error_g" \notin columns(df)
    /\ {"filter_r", "flux_r", "flux_error_r"} \cap columns(df) = {}

\* row i of d shares its ob_code with another row
Duplicated(d, i) ==
    \E j \in 1..size(d) : j # i /\ d.rows[j]["ob_code"] = d.rows[i]["ob_code"]

\* C13: for a non-empty dataset the status of check_unique is True iff no
\* ob_code occurs more than once; the flag of a row is True iff its ob_code
\* occurs more than once, so every occurrence of a duplicated value is flagged,
\* a value that occurs once is not, and on success no row is flagged.
C13_Unique ==
    (validation_status.unique.status # None /\ size(df0) > 0) =>
       LET u == validation_status.unique IN
       /\ u.status = "True" <=> \A i \in 1..size(df0) : ~Duplicated(df0, i)
       /\ ~u.noflags
       /\ Len(u.flags) = size(df0)
       /\ \A i \in 1..size(df0) : u.flags[i] = Duplicated(df0, i)

\* two rows share an ob_code and are both flagged, another row is not
C13_Witness ==
    /\ validation_status.unique.status = "False"
    /\ \E i, j, k \in 1..size(df0) :
          /\ i < j /\ k \notin {i, j}
          /\ df0.rows[i]["ob_code"] = df0.rows[j]["ob_code"]
          /\ validation_status.unique.flags[i]
          /\ validation_status.unique.flags[j]
          /\ ~validation_status.unique.flags[k]

\* C14: a run on an empty dataset ends with a report whose Stage 4 has failed
\* with the description 'Empty data detected ...' and whose overall status is
\* False.
C14_EmptyData ==
    (pc \in {"done", "raised"} /\ empty(df0)) =>
       /\ Returned
       /\ validation_status.unique.status = "False"
       /\ validation_status.unique.description
             = "Empty data detected (maybe failure in loading the inputs)"
       /\ validation_status.status = FALSE

\* C15: the one-row dataset whose only flux information is the column flux_g
\* passes the five stages and gets the overall status True.
C15_EndToEnd ==
    (pc \in {"done", "raised"} /\ df0 = EndToEndDataset) =>
       /\ Returned
       /\ \A i \in 1..5 : StageStatus(validation_status)[i] = "True"
       /\ validation_status.status = TRUE

\* C16: a second run of validate_input on the dataset of a first run, the same
\* object or an equal copy, returns a report identical to the first.
C16_Idempotent ==
    (run = 2 /\ pc \in {"done", "raised"}) =>
       /\ Returned
       /\ validation_status = report1

\* date a is earlier than date b
DateLess(a, b) ==
    \/ a.year < b.year
    \/ a.year = b.year /\ a.month < b.month
    \/ a.year = b.year /\ a.month = b.month /\ a.day < b.day

NextDay(d) ==
    IF d.day < DaysInMonth(d.year, d.month) THEN Date(d.year, d.month, d.day + 1)
    ELSE IF d.month < 12 THEN Date(d.year, d.month + 1, 1)
    ELSE Date(d.year + 1, 1, 1)

\* C18: get_semester_daterange(next=True) returns Aug 1 of the year to Jan 31
\* of the next year for a date in Feb-Jul, Feb 1 to Jul 31 of the next year for
\* a date in Aug-Dec, and Feb 1 to Jul 31 of the year for a date in January;
\* the window begins strictly after the date, on the day after the end of the
\* current-semester window, which contains the date; visibility_checker takes
\* each bound that was not given from this window and keeps a given one.
C18_NextSemester ==
    /\ sem.pc \in {"defaults", "ranged"} =>
          LET y == sem.now.year
              m == sem.now.month
              b == sem.tmp_begin
              e == sem.tmp_end
              cur == get_semester_daterange(sem.now, TRUE, FALSE)
          IN /\ m \in 2..7 => b = Date(y, 8, 1) /\ e = Date(y + 1, 1, 31)
             /\ m \in 8..12 => b = Date(y + 1, 2, 1) /\ e = Date(y + 1, 7, 31)
             /\ m = 1 => b = Date(y, 2, 1) /\ e = Date(y, 7, 31)
             /\ DateLess(sem.now, b)
             /\ ~DateLess(sem.now, cur[1]) /\ ~DateLess(cur[2], sem.now)
             /\ b = NextDay(cur[2])
    /\ sem.pc = "ranged" =>
          /\ sem.date_begin
                = IF sem.arg_begin = NoDate THEN sem.tmp_begin ELSE sem.arg_begin
          /\ sem.date_end
                = IF sem.arg_end = NoDate THEN sem.tmp_end ELSE sem.arg_end

\* a call in January with only the end of the range given: the range begins on
\* Feb 1 of the same year and ends on the given date
C18_Witness ==
    /\ sem.pc = "ranged"
    /\ sem.now.month = 1
    /\ sem.arg_begin = NoDate
    /\ sem.arg_end # NoDate
    /\ sem.date_begin = Date(sem.now.year, 2, 1)
    /\ sem.date_end = sem.arg_end

\* the seconds that a night adds according to C17
NightSeconds(o) == IF o[1] # NoTime /\ o[2] # NoTime /\ o[2] > o[1] THEN o[2] - o[1] ELSE 0

RECURSIVE SumSeconds(_)
SumSeconds(a) == IF a = <<>> THEN 0 ELSE NightSeconds(Head(a)) + SumSeconds(Tail(a))

\* C17: visibility_checker returns a mask with one entry per record; the entry
\* of a record is True iff the seconds accumulated over every night of the
\* date range (t_stop - t_start of a night when both are returned and
\* t_stop > t_start, 0 otherwise) reach its exptime; for an empty input the
\* mask is empty and the ephemeris is never asked.
C17_Visibility ==
    /\ Len(vis.tgt_obs_ok) = vis.i_t
    /\ (vis.pc = "target" /\ vis.i_t > 0) =>
          /\ Len(vis.answers) = IF vis.daterange > 0 THEN vis.daterange - 1 ELSE 0
          /\ vis.tgt_obs_ok[vis.i_t]
                = (SumSeconds(vis.answers) >= vis.exptime[vis.i_t])
    /\ vis.pc = "returned" =>
          /\ Len(vis.returned) = Len(vis.exptime)
          /\ vis.returned = vis.tgt_obs_ok
          /\ Len(vis.exptime) = 0 => vis.calls = 0

\* one night of 900 s and a night that adds nothing (no window returned, or
\* t_stop <= t_start) reach an exptime of exactly 900 s
C17_Witness ==
    /\ vis.pc = "target"
    /\ vis.i_t > 0
    /\ vis.exptime[vis.i_t] = 900
    /\ SumSeconds(vis.answers) = 900
    /\ \E k \in DOMAIN vis.answers : NightSeconds(vis.answers[k]) = 0
    /\ vis.tgt_obs_ok[vis.i_t]

C20_OptimizerFailureCaught ==
    (app.cb = "idle" /\ app.run_ppp \in {"GurobiError", "Exception"}) =>
       /\ app.exit = "returned"
       /\ ~app.disabled
       /\ ~app.timer
       /\ app.shown

\* the visible rows of resolution r in the report of the running callback
VisibleOf(r) ==
    {i \in DOMAIN app.validation_status.visibility.success :
        app.validation_status.visibility.success[i] /\ resolution(i) = r}

C23_RenderedBeforeRunPpp ==
    (app.pc = "run_ppp" \/ app.run_ppp # "not called") =>
       /\ app.shown
       /\ app.tab_visible

\* the optimizer has failed in cb_PPP and the validation results are on display
C23_Witness ==
    /\ app.run_ppp = "GurobiError"
    /\ app.cb = "cb_PPP"
    /\ app.shown
    /\ app.tab_visible

\* C24: in cb_submit, upload is called only when the validation inside the
\* same callback reported the overall status True; when the report is None
\* or failed, cb_submit returns without an upload, the timer is stopped and
\* Submit is disabled.
C24_UploadGate ==
    app.last = "cb_submit" =>
       LET r == app.validation_status IN
       /\ app.cb = "cb_submit" => r = validate(app.file)
       /\ app.upload # "not called" => (~r.none /\ r.status)
       /\ (app.cb = "idle" /\ (r.none \/ ~r.status)) =>
             /\ app.upload = "not called"
             /\ app.exit = "returned"
             /\ ~app.timer
             /\ app.submit_disabled

\* Submit was clicked with a file that fails the validation: cb_submit has
\* returned without an upload, while an earlier Submit has written an archive
C24_Witness ==
    /\ app.last = "cb_submit"
    /\ app.cb = "idle"
    /\ ~app.validation_status.none
    /\ ~app.validation_status.status
    /\ app.upload = "not called"
    /\ Len(app.upload_ids) = 1

\* C25: whenever no callback is running and Submit is enabled, the most
\* recent validation run reported the overall status True.
C25_SubmitEnabledOnlyIfValid ==
    (app.cb = "idle" /\ ~app.submit_disabled) =>
       /\ ~app.validation_status.none
       /\ app.validation_status.status

\* C26: while cb_validate or cb_PPP is running the three controls are disabled
\* and the timer runs; whenever no callback is running, the timer is stopped
\* and the three controls are enabled, whatever clicks came before.
C26_ControlsRestored ==
    /\ app.cb \in {"cb_validate", "cb_PPP"} => (app.disabled /\ app.timer)
    /\ app.cb = "idle" => (~app.disabled /\ ~app.timer)

\* C27: the ppp_status of an archive is True exactly when run_ppp has
\* returned since the simulation panel was last reset; when it is False, or
\* when the panel has no simulation tables, the archived psl and ppc tables
\* are the placeholders.
C27_ArchivePppStatus ==
    app.archive # <<>> =>
       LET a == app.archive[1] IN
       /\ a.ppp_status <=> a.completed
       /\ (~a.ppp_status \/ a.tables = <<>>) => a.psl = <<>>
       /\ a.ppp_status => a.psl = a.tables

\* an archive written after a simulation and a later Validate: the panel still
\* holds the tables of the simulation, the archive has the placeholders
C27_Witness ==
    /\ app.archive # <<>>
    /\ ~app.archive[1].ppp_status
    /\ app.archive[1].tables # <<>>
    /\ app.archive[1].psl = <<>>

\* C29: in every archive the target table, the simulation tables (when they
\* are not the placeholders) and the original file all come from the file
\* that was validated inside the Submit callback.
C29_ArchiveConsistent ==
    app.archive # <<>> =>
       LET a == app.archive[1] IN
       /\ a.origdata = a.validated
       /\ a.target = <<a.validated>>
       /\ a.psl # <<>> => a.psl = <<a.validated>>

\* C30: every archive has an upload id that is not None, and no two archives
\* of a session have the same upload id.
C30_UploadIdsDistinct ==
    /\ \A i \in DOMAIN app.upload_ids : app.upload_ids[i] # 0
    /\ \A i, j \in DOMAIN app.upload_ids :
          i # j => app.upload_ids[i] # app.upload_ids[j]

\* the text of a cell is the decimal notation of an integer
IsInteger(c) ==
    LET digits == IF c.body # <<>> /\ c.body[1] \in {"+", "-"} THEN Tail(c.body) ELSE c.body
    IN digits # <<>> /\ \A i \in DOMAIN digits : digits[i] \in DecimalDigits

\* C28: no exception leaves load_input; an unsupported format gives None,
\* status False and an error message; CSV or ECSV content with a value that is
\* not an integer in obj_id, priority, tract or patch gives None, status False
\* and the error; a successful load gives the dataset, status True and no error.
C28_LoadFailuresAsValues ==
    io.pc = "done" =>
       LET f == io.file
           r == io.ret
       IN /\ r.exc = "none"
          /\ f.format \notin {"csv", "ecsv"} =>
                (r.df_input = <<>> /\ ~r.status /\ r.error = "No CSV or ECSV file selected")
          /\ (f.format \in {"csv", "ecsv"} /\
                \E i \in DOMAIN IntColumns : ~IsInteger(f.row[IntColumns[i]])) =>
                (r.df_input = <<>> /\ ~r.status /\ r.error # "None")
          /\ r.status => (r.df_input # <<>> /\ r.error = "None")
          /\ r.status <=> r.df_input # <<>>

====
